---- MODULE Spec2Model ----
(***************************************************************************)
(* Model of SierraBuilder::compile (src/src/main.rs, src/src/utils.rs):    *)
(* the lowering of an LLVM module (functions, basic blocks, instructions)  *)
(* to a Sierra program.  The state is the SierraBuilder of main.rs:20-30   *)
(* plus the position of compile() in its loops.  Strings are modelled as   *)
(* sequences of tokens: a token is the quote character, a blank, or a      *)
(* chunk holding neither; the substring "jump", where a name has it, is a  *)
(* token of its own.                                                       *)
(***************************************************************************)
EXTENDS Integers, Sequences, FiniteSets, TLC

\* ------------------------------------------------------------------------
\* Bounds of the input space
\* ------------------------------------------------------------------------
MaxFuncs == 2
MaxConst == 1

\* ------------------------------------------------------------------------
\* Strings
\* ------------------------------------------------------------------------
Quote == "\""
Blank == " "
\* u32::MAX, the placeholder target of a jump.  The integers of the checker are
\* 32-bit signed, so the placeholder is modelled by the largest of them; it is
\* printed as u32::MAX is.
U32Max == 2147483647

DigitChars == <<"0", "1", "2", "3", "4", "5", "6", "7", "8", "9">>

IsDigit(c) == \E d \in 1..10 : DigitChars[d] = c

DigitVal(c) == (CHOOSE d \in 1..10 : DigitChars[d] = c) - 1

RECURSIVE NatToText(_)
NatToText(n) ==
    IF n < 10 THEN <<DigitChars[n + 1]>>
    ELSE NatToText(n \div 10) \o <<DigitChars[(n % 10) + 1]>>

\* LLVM prints an integer constant as a signed decimal
IntToText(n) == IF n < 0 THEN <<"-">> \o NatToText(0 - n) ELSE NatToText(n)

RECURSIVE DigitsToNat(_, _)
DigitsToNat(s, acc) ==
    IF s = <<>> THEN acc ELSE DigitsToNat(Tail(s), acc * 10 + DigitVal(Head(s)))

\* str::parse::<i128>: an optional sign, then one or more decimal digits (the
\* literals of the input programs are far inside the range of i128)
parse_i128(s) ==
    LET signed == s # <<>> /\ Head(s) \in {"-", "+"}
        digits == IF signed THEN Tail(s) ELSE s
        wellformed == digits # <<>> /\ \A i \in 1..Len(digits) : IsDigit(digits[i])
        mag == IF wellformed THEN DigitsToNat(digits, 0) ELSE 0
        val == IF signed /\ Head(s) = "-" THEN 0 - mag ELSE mag
    IN  IF wellformed
        THEN [ok |-> TRUE, val |-> val]
        ELSE [ok |-> FALSE, val |-> 0]

NotQuote(c) == c # Quote

\* String::retain(|c| c != '"')
retain_not_quote(s) == SelectSeq(s, NotQuote)

\* str::split_whitespace().last()
split_whitespace_last(s) ==
    LET ws == {i \in 1..Len(s) : s[i] = Blank}
        start == IF ws = {} THEN 1 ELSE (CHOOSE i \in ws : \A j \in ws : j <= i) + 1
    IN  SubSeq(s, start, Len(s))

\* str::contains("jump")
contains_jump(s) == \E i \in 1..Len(s) : s[i] = "jump"

RECURSIVE JoinComma(_)
JoinComma(ss) ==
    IF ss = <<>> THEN <<>>
    ELSE IF Len(ss) = 1 THEN ss[1]
    ELSE ss[1] \o <<",", Blank>> \o JoinComma(Tail(ss))

RECURSIVE Concat(_)
Concat(ss) == IF ss = <<>> THEN <<>> ELSE Head(ss) \o Concat(Tail(ss))

\* ------------------------------------------------------------------------
\* The LLVM side: values, types, instructions as inkwell shows them
\* ------------------------------------------------------------------------
Param(f, i, ty, nm) ==
    [kind |-> "param", f |-> f, b |-> 0, i |-> i, ty |-> ty, val |-> 0, name |-> nm]

ConstInt(ty, v) ==
    [kind |-> "const", f |-> 0, b |-> 0, i |-> 0, ty |-> ty, val |-> v, name |-> <<>>]

Result(f, b, i, ty, nm) ==
    [kind |-> "instr", f |-> f, b |-> b, i |-> i, ty |-> ty, val |-> 0, name |-> nm]

NoValue == [kind |-> "none", f |-> 0, b |-> 0, i |-> 0, ty |-> "void", val |-> 0, name |-> <<>>]

ICmp(pred, x, y, nm) ==
    [op |-> "ICmp", pred |-> pred, ty |-> "i1", name |-> nm, ops |-> <<x, y>>,
     inc |-> <<>>, iftrue |-> 0, iffalse |-> 0]

Add(x, y, nm) ==
    [op |-> "Add", pred |-> "", ty |-> x.ty, name |-> nm, ops |-> <<x, y>>,
     inc |-> <<>>, iftrue |-> 0, iffalse |-> 0]

\* inc: the (incoming value, predecessor block) pairs in textual order
Phi(ty, inc, nm) ==
    [op |-> "Phi", pred |-> "", ty |-> ty, name |-> nm, ops |-> <<>>,
     inc |-> inc, iftrue |-> 0, iffalse |-> 0]

\* br i1 cond, label iftrue, label iffalse
Br(cond, iftrue, iffalse) ==
    [op |-> "Br", pred |-> "", ty |-> "void", name |-> <<>>, ops |-> <<cond>>,
     inc |-> <<>>, iftrue |-> iftrue, iffalse |-> iffalse]

Ret(ops) ==
    [op |-> "Return", pred |-> "", ty |-> "void", name |-> <<>>, ops |-> ops,
     inc |-> <<>>, iftrue |-> 0, iffalse |-> 0]

\* an instruction of an opcode compile() has no arm for (unreachable, sub, ...)
Unsupported(ty, nm) ==
    [op |-> "Other", pred |-> "", ty |-> ty, name |-> nm, ops |-> <<>>,
     inc |-> <<>>, iftrue |-> 0, iffalse |-> 0]

IntTypes == {"i1", "i32", "i64"}

\* BasicValueEnum::into_int_value succeeds on integer-typed values only
is_int_value(v) == v.ty \in IntTypes

\* IntValue::is_constant_int
is_constant_int(v) == v.kind = "const"

\* LLVMPrintTypeToString, then LLVMString::to_string (the inherent method)
type_print_to_string(ty) == <<ty>>

\* Display of a type: Display of the LLVMString, which is the Debug form of
\* the C string, wrapped in quotes
type_to_string(ty) == <<Quote>> \o type_print_to_string(ty) \o <<Quote>>

\* LLVMPrintValueToString of a constant integer: "<type> <value>"
value_print_to_string(v) ==
    <<v.ty, Blank>> \o
        (IF v.ty = "i1" THEN (IF v.val = 0 THEN <<"false">> ELSE <<"true">>)
         ELSE IntToText(v.val))

\* the operands of a conditional br are stored as (cond, iffalse, iftrue)
br_operand_block(f, instr, idx) ==
    IF idx = 1 THEN <<f, instr.iffalse>> ELSE <<f, instr.iftrue>>

\* ------------------------------------------------------------------------
\* Input programs: modules of MaxFuncs functions at most, from these families
\* ------------------------------------------------------------------------
K(v) == ConstInt("i32", v)

\* c1 = icmp eq a, b ; s = add a, k ; c2 = icmp p2 s, k ; ret s
FnStraight(f, p2, k) ==
    LET a == Param(f, 1, "i32", <<"a">>)
        b == Param(f, 2, "i32", <<"b">>)
        s == Result(f, 1, 2, "i32", <<"s">>)
    IN  [params |-> <<a, b>>,
         blocks |-> << <<ICmp("eq", a, b, <<"c1">>), Add(a, K(k), <<"s">>),
                         ICmp(p2, s, K(k), <<>>), Ret(<<s>>)>> >>]

\* entry: c = icmp eq a, b ; br c, B2, B3
\* B2: x = add a, k ; br c, B4, B5      B3: y = add b, 0 ; br c, B4, B5
\* B4: p = phi [x, B2], [y, B3] ; ret p      B5: ret a
FnDiamond(f, k) ==
    LET a == Param(f, 1, "i32", <<"a">>)
        b == Param(f, 2, "i32", <<"b">>)
        c == Result(f, 1, 1, "i1", <<"c">>)
        x == Result(f, 2, 1, "i32", <<"x">>)
        y == Result(f, 3, 1, "i32", <<>>)
        p == Result(f, 4, 1, "i32", <<"p">>)
    IN  [params |-> <<a, b>>,
         blocks |-> << <<ICmp("eq", a, b, <<"c">>), Br(c, 2, 3)>>,
                       <<Add(a, K(k), <<"x">>), Br(c, 4, 5)>>,
                       <<Add(b, K(0), <<>>), Br(c, 4, 5)>>,
                       <<Phi("i32", << <<x, <<f, 2>> >>, <<y, <<f, 3>> >> >>, <<"p">>),
                         Ret(<<p>>)>>,
                       <<Ret(<<a>>)>> >>]

\* entry: c = icmp eq n, 0 ; br c, B3, B2
\* B2: i = phi [n, entry], [i2, B2] ; i2 = add i, k ; c2 = icmp eq i2, 0 ; br c2, B3, B2
\* B3: r = phi [n, entry], [i2, B2] ; ret r
FnLoop(f, k) ==
    LET n == Param(f, 1, "i32", <<"n">>)
        c == Result(f, 1, 1, "i1", <<"c">>)
        i == Result(f, 2, 1, "i32", <<"i">>)
        i2 == Result(f, 2, 2, "i32", <<"i2">>)
        c2 == Result(f, 2, 3, "i1", <<"c2">>)
        r == Result(f, 3, 1, "i32", <<"r">>)
    IN  [params |-> <<n>>,
         blocks |-> << <<ICmp("eq", n, K(0), <<"c">>), Br(c, 3, 2)>>,
                       <<Phi("i32", << <<n, <<f, 1>> >>, <<i2, <<f, 2>> >> >>, <<"i">>),
                         Add(i, K(k), <<"i2">>), ICmp("eq", i2, K(0), <<"c2">>),
                         Br(c2, 3, 2)>>,
                       <<Phi("i32", << <<n, <<f, 1>> >>, <<i2, <<f, 2>> >> >>, <<"r">>),
                         Ret(<<r>>)>> >>]

\* entry: br c, B2, B2
\* B2: p = phi [a, entry], [a, entry] ; r = add p, k ; ret r
FnDupEdge(f, k) ==
    LET c == Param(f, 1, "i1", <<"c">>)
        a == Param(f, 2, "i32", <<"a">>)
        p == Result(f, 2, 1, "i32", <<"p">>)
        r == Result(f, 2, 2, "i32", <<"r">>)
    IN  [params |-> <<c, a>>,
         blocks |-> << <<Br(c, 2, 2)>>,
                       <<Phi("i32", << <<a, <<f, 1>> >>, <<a, <<f, 1>> >> >>, <<"p">>),
                         Add(p, K(k), <<"r">>), Ret(<<r>>)>> >>]

\* entry: br c, B2, B3      B2: ret a      B3: unreachable
FnEmptyTail(f) ==
    LET c == Param(f, 1, "i1", <<>>)
        a == Param(f, 2, "i64", <<"a">>)
    IN  [params |-> <<c, a>>,
         blocks |-> << <<Br(c, 2, 3)>>, <<Ret(<<a>>)>>,
                       <<Unsupported("void", <<>>)>> >>]

\* entry: c = icmp ne a, 0 ; br c, B2, B3
\* B2: p = phi [k, entry] ; ret p      B3: ret a
FnConstPhi(f, k) ==
    LET a == Param(f, 1, "i32", <<"a">>)
        c == Result(f, 1, 1, "i1", <<"c">>)
        p == Result(f, 2, 1, "i32", <<"p">>)
    IN  [params |-> <<a>>,
         blocks |-> << <<ICmp("ne", a, K(0), <<"c">>), Br(c, 2, 3)>>,
                       <<Phi("i32", << <<K(k), <<f, 1>> >> >>, <<"p">>), Ret(<<p>>)>>,
                       <<Ret(<<a>>)>> >>]

\* entry: c = icmp eq a, b ; br c, then, else      then: ret 1      else: ret 0
FnRetConst(f) ==
    LET a == Param(f, 1, "i32", <<"a">>)
        b == Param(f, 2, "i32", <<"b">>)
        c == Result(f, 1, 1, "i1", <<"c">>)
    IN  [params |-> <<a, b>>,
         blocks |-> << <<ICmp("eq", a, b, <<"c">>), Br(c, 2, 3)>>,
                       <<Ret(<<K(1)>>)>>, <<Ret(<<K(0)>>)>> >>]

\* define void @f() { ret void }
FnVoid(f) == [params |-> <<>>, blocks |-> << <<Ret(<<>>)>> >>]

\* declare void @f(i64): parameters, no body
FnDecl(f) == [params |-> <<Param(f, 1, "i64", <<>>)>>, blocks |-> <<>>]

\* a parameter whose name holds "jump": c = icmp eq jump_a, jump_a ; ret c
FnJumpName(f) ==
    LET a == Param(f, 1, "i32", <<"jump", "_a">>)
        c == Result(f, 1, 1, "i1", <<"c">>)
    IN  [params |-> <<a>>,
         blocks |-> << <<ICmp("eq", a, a, <<"c">>), Ret(<<c>>)>> >>]

\* c = icmp eq x, true ; ret c
FnBoolLit(f) ==
    LET x == Param(f, 1, "i1", <<"x">>)
        c == Result(f, 1, 1, "i1", <<"c">>)
    IN  [params |-> <<x>>,
         blocks |-> << <<ICmp("eq", x, ConstInt("i1", 1), <<"c">>), Ret(<<c>>)>> >>]

\* c = icmp eq p, q ; ret c      with p, q pointers
FnPtrCmp(f) ==
    LET p == Param(f, 1, "ptr", <<"p">>)
        q == Param(f, 2, "ptr", <<"q">>)
        c == Result(f, 1, 1, "i1", <<"c">>)
    IN  [params |-> <<p, q>>,
         blocks |-> << <<ICmp("eq", p, q, <<"c">>), Ret(<<c>>)>> >>]

\* t = sub a, a (no arm) ; s = add a, -1 ; c = icmp ne s, -1 ; ret s      on i64
FnWide(f) ==
    LET a == Param(f, 1, "i64", <<"a">>)
        s == Result(f, 1, 2, "i64", <<"s">>)
        m == ConstInt("i64", 0 - 1)
    IN  [params |-> <<a>>,
         blocks |-> << <<Unsupported("i64", <<"t">>), Add(a, m, <<"s">>),
                         ICmp("ne", s, m, <<"c">>), Ret(<<s>>)>> >>]

\* t = sub a, a (no arm) ; s = add t, a ; ret s
FnUnbound(f) ==
    LET a == Param(f, 1, "i32", <<"a">>)
        t == Result(f, 1, 1, "i32", <<"t">>)
        s == Result(f, 1, 2, "i32", <<"s">>)
    IN  [params |-> <<a>>,
         blocks |-> << <<Unsupported("i32", <<"t">>), Add(t, a, <<"s">>), Ret(<<s>>)>> >>]

\* entry: c = icmp eq a, b ; br c, B2, B3
\* B2: p = phi i1 [c, entry] ; q = phi i64 [a, entry] ; ret q      B3: ret b
FnTwoPhi(f) ==
    LET a == Param(f, 1, "i64", <<"a">>)
        b == Param(f, 2, "i64", <<"b">>)
        c == Result(f, 1, 1, "i1", <<"c">>)
        q == Result(f, 2, 2, "i64", <<"q">>)
    IN  [params |-> <<a, b>>,
         blocks |-> << <<ICmp("eq", a, b, <<"c">>), Br(c, 2, 3)>>,
                       <<Phi("i1", << <<c, <<f, 1>> >> >>, <<"p">>),
                         Phi("i64", << <<a, <<f, 1>> >> >>, <<"q">>), Ret(<<q>>)>>,
                       <<Ret(<<b>>)>> >>]

Functions(f) ==
    {FnStraight(f, p2, MaxConst) : p2 \in {"eq", "ne"}}
    \cup {FnDiamond(f, k) : k \in 0..MaxConst}
    \cup {FnConstPhi(f, k) : k \in 0..MaxConst}
    \cup {FnLoop(f, MaxConst), FnDupEdge(f, MaxConst)}
    \cup {FnEmptyTail(f), FnRetConst(f), FnVoid(f), FnDecl(f), FnJumpName(f),
          FnBoolLit(f), FnPtrCmp(f), FnWide(f), FnUnbound(f), FnTwoPhi(f)}

RECURSIVE ProgramsOfLen(_)
ProgramsOfLen(n) ==
    IF n = 0 THEN {<<>>}
    ELSE {Append(p, fn) : p \in ProgramsOfLen(n - 1), fn \in Functions(n)}

Programs == UNION {ProgramsOfLen(n) : n \in 1..MaxFuncs}

\* ------------------------------------------------------------------------
\* The Sierra side: identifiers, declarations, statements and their Display
\* ------------------------------------------------------------------------
NoName == [some |-> FALSE, name |-> <<>>]

SomeName(nm) == [some |-> TRUE, name |-> nm]

\* cairo_lang_sierra::ids::VarId {id, debug_name}
VarId(id, debug_name) == [id |-> id, debug_name |-> debug_name]

\* Display of a VarId: the debug name when there is one, "[id]" otherwise
var_to_string(v) ==
    IF v.debug_name.some THEN v.debug_name.name
    ELSE <<"[">> \o NatToText(v.id) \o <<"]">>

VarsToString(vs) == JoinComma([i \in 1..Len(vs) |-> var_to_string(vs[i])])

Fallthrough == [kind |-> "Fallthrough", idx |-> 0]

StatementTarget(idx) == [kind |-> "Statement", idx |-> idx]

GenBranchInfo(target, results) == [target |-> target, results |-> results]

Invocation(libfunc_id, args, branches) ==
    [kind |-> "Invocation", libfunc_id |-> libfunc_id, args |-> args,
     branches |-> branches, vars |-> <<>>]

ReturnStatement(vs) ==
    [kind |-> "Return", libfunc_id |-> <<>>, args |-> <<>>, branches |-> <<>>,
     vars |-> vs]

\* Display of a StatementIdx
statement_idx_to_string(idx) ==
    IF idx = U32Max THEN <<"4294967295">> ELSE NatToText(idx)

branch_to_string(br) ==
    (IF br.target.kind = "Fallthrough" THEN <<"fallthrough">>
     ELSE statement_idx_to_string(br.target.idx))
    \o <<"(">> \o VarsToString(br.results) \o <<")">>

\* Display of a GenStatement
statement_to_string(st) ==
    IF st.kind = "Return" THEN <<"return", "(">> \o VarsToString(st.vars) \o <<")">>
    ELSE st.libfunc_id \o <<"(">> \o VarsToString(st.args) \o
         (IF Len(st.branches) = 1 /\ st.branches[1].target.kind = "Fallthrough"
          THEN <<")", Blank, "->", Blank, "(">> \o VarsToString(st.branches[1].results)
               \o <<")">>
          ELSE <<")", Blank, "{", Blank>>
               \o Concat([i \in 1..Len(st.branches) |->
                             branch_to_string(st.branches[i]) \o <<Blank>>])
               \o <<"}">>)

TypeArg(ty) == [kind |-> "Type", ty |-> ty, value |-> 0]

ValueArg(v) == [kind |-> "Value", ty |-> <<>>, value |-> v]

LibfuncDeclaration(id, generic_id, generic_args) ==
    [id |-> id, generic_id |-> generic_id, generic_args |-> generic_args]

generic_arg_to_string(a) == IF a.kind = "Type" THEN a.ty ELSE IntToText(a.value)

\* Display of a LibfuncDeclaration: "libfunc <id> = <generic_id><args>" (the
\* ";" that ends the line of a declaration is written by Display of Program)
libfunc_declaration_to_string(d) ==
    <<"libfunc", Blank>> \o d.id \o <<Blank, "=", Blank>> \o d.generic_id
    \o (IF d.generic_args = <<>> THEN <<>>
        ELSE <<"<">> \o JoinComma([i \in 1..Len(d.generic_args) |->
                                     generic_arg_to_string(d.generic_args[i])])
             \o <<">">>)

TypeDeclaration(ty) ==
    [id |-> ty, generic_id |-> ty, generic_args |-> <<>>,
     storable |-> TRUE, droppable |-> TRUE, duplicatable |-> TRUE, zero_sized |-> FALSE]

\* ------------------------------------------------------------------------
\* Maps and sets of the builder
\* ------------------------------------------------------------------------
EmptyMap == [x \in {} |-> 0]

MapInsert(m, k, v) == [x \in (DOMAIN m) \cup {k} |-> IF x = k THEN v ELSE m[x]]

\* equality of the (VarId, String, BasicValueEnum) triples: a VarId is compared
\* by its id, the debug name is ignored
SamePhiEntry(x, y) == x.var.id = y.var.id /\ x.ty = y.ty /\ x.src = y.src

PhiSetInsert(set, e) ==
    IF \E x \in set : SamePhiEntry(x, e) THEN set ELSE set \cup {e}

\* ------------------------------------------------------------------------
\* SierraBuilder: the methods, as functions from builder to builder.  B is
\* the builder with compile()'s local first_var_id and the panic, if any.
\* A method whose body names an intermediate builder several times is split
\* into steps that take that builder as a parameter.
\* ------------------------------------------------------------------------
Panic(B, msg) == [B EXCEPT !.err = msg]

\* next_var(): the counter moves on; the caller reads the value before
alloc_next_var(B) == [B EXCEPT !.next_var = B.next_var + 1]

\* insert_type without `ty.retain(|c| c != '"')`
insert_type_keep_quotes(B, ty0) ==
    IF B.err # "ok" THEN B
    ELSE IF ty0 \in B.types THEN B
    ELSE [B EXCEPT !.types = B.types \cup {ty0},
                   !.type_declarations = Append(B.type_declarations,
                                                TypeDeclaration(ty0))]

insert_type(B, ty0) ==
    LET ty == retain_not_quote(ty0)
    IN  IF B.err # "ok" THEN B
        ELSE IF ty \in B.types THEN B
        ELSE [B EXCEPT !.types = B.types \cup {ty},
                       !.type_declarations = Append(B.type_declarations,
                                                    TypeDeclaration(ty))]

\* `if self.libfuncs.insert(key) { self.program.libfunc_declarations.push(func) }`
declare_libfunc(B, key, func) ==
    IF key \in B.libfuncs THEN B
    ELSE [B EXCEPT !.libfuncs = B.libfuncs \cup {key},
                   !.libfunc_declarations = Append(B.libfunc_declarations, func)]

insert_param_bind(B1, param) ==
    [B1 EXCEPT !.next_var = B1.next_var + 1,
               !.variables = MapInsert(B1.variables, param,
                                       VarId(B1.next_var, SomeName(param.name)))]

insert_param(B, param) ==
    IF B.err # "ok" THEN B
    ELSE insert_param_bind(insert_type(B, type_to_string(param.ty)), param)

RECURSIVE insert_params(_, _)
insert_params(B, params) ==
    IF params = <<>> THEN B
    ELSE insert_params(insert_param(B, Head(params)), Tail(params))

push_simple_basic_statement(B, libfunc_id, args, results) ==
    IF B.err # "ok" THEN B
    ELSE [B EXCEPT !.statements =
              Append(B.statements,
                     Invocation(libfunc_id, args, <<GenBranchInfo(Fallthrough, results)>>))]

store_temp_push(B1, libfunc_id, args, results) ==
    [B1 EXCEPT !.statements =
         Append(B1.statements,
                Invocation(libfunc_id, args, <<GenBranchInfo(Fallthrough, results)>>))]

push_store_temp_statement(B, libfunc_id, ty, args, results) ==
    IF B.err # "ok" THEN B
    ELSE store_temp_push(
             declare_libfunc(B, <<"store_temp">>,
                             LibfuncDeclaration(<<"store_temp">>, <<"store_temp">>,
                                                <<TypeArg(ty)>>)),
             libfunc_id, args, results)

build_jump_basic_statement(libfunc_id, dest1, dest2) ==
    Invocation(libfunc_id, <<>>,
               <<GenBranchInfo(StatementTarget(dest1), <<>>),
                 GenBranchInfo(StatementTarget(dest2), <<>>)>>)

const_fn_name(ty, int_value) ==
    <<"const_as_immediate<">> \o ty \o <<",", Blank>> \o int_value \o <<">">>

const_debug_name(ty, int_value) ==
    <<"const_">> \o ty \o <<"<">> \o int_value \o <<">">>

\* utils.rs:157-169: the variable, the statement, the rebinding
add_const_emit(B1, val, fn_name, next_var) ==
    [B1 EXCEPT !.next_var = B1.next_var + 1,
               !.statements =
                   Append(B1.statements,
                          Invocation(fn_name, <<>>,
                                     <<GenBranchInfo(Fallthrough, <<next_var>>)>>)),
               !.variables = MapInsert(B1.variables, val, next_var)]

\* utils.rs:141-156: the declaration, built (and the literal parsed) before it
\* is looked up in libfuncs
add_const_declare(B, val, ty, int_value, fn_name, parsed) ==
    IF ~parsed.ok THEN Panic(B, "parse")
    ELSE add_const_emit(
             declare_libfunc(B, fn_name,
                             LibfuncDeclaration(fn_name, <<"const">>,
                                                <<TypeArg(ty), ValueArg(parsed.val)>>)),
             val, fn_name,
             VarId(B.next_var, SomeName(const_debug_name(ty, int_value))))

add_const_named(B, val, ty, int_value) ==
    add_const_declare(B, val, ty, int_value, const_fn_name(ty, int_value),
                      parse_i128(int_value))

add_const_if_const(B, val, ty) ==
    IF B.err # "ok" THEN B
    ELSE IF ~is_int_value(val) THEN Panic(B, "into_int_value")
    ELSE IF ~is_constant_int(val) THEN B
    ELSE add_const_named(B, val, ty,
                         split_whitespace_last(value_print_to_string(val)))

\* the value of the instruction at (f, b, i), as a key of the binding table
InstrValue(f, b, i, instr) == Result(f, b, i, instr.ty, instr.name)

\* AnyValueEnum -> BasicValueEnum succeeds for every first-class result type
is_basic_value(instr) == instr.ty # "void"

\* utils.rs:113-124: the result variable is bound without its debug name, the
\* statement carries it with the debug name
binary_result(B3, f, b, i, instr, concrete_id, args) ==
    [B3 EXCEPT !.next_var = B3.next_var + 1,
               !.variables =
                   IF is_basic_value(instr)
                   THEN MapInsert(B3.variables, InstrValue(f, b, i, instr),
                                  VarId(B3.next_var, NoName))
                   ELSE B3.variables,
               !.statements =
                   Append(B3.statements,
                          Invocation(concrete_id, args,
                                     <<GenBranchInfo(Fallthrough,
                                         <<VarId(B3.next_var,
                                                 IF is_basic_value(instr)
                                                    /\ instr.name # <<>>
                                                 THEN SomeName(instr.name)
                                                 ELSE NoName)>>)>>))]

\* utils.rs:108-111: the operands are read after both were materialized
binary_args(B3, f, b, i, instr, concrete_id) ==
    IF B3.err # "ok" THEN B3
    ELSE IF \E k \in 1..2 : instr.ops[k] \notin DOMAIN B3.variables
    THEN Panic(B3, "unwrap")
    ELSE binary_result(B3, f, b, i, instr, concrete_id,
                       <<B3.variables[instr.ops[1]], B3.variables[instr.ops[2]]>>)

build_binary_int_func(B, f, b, i, instr, concrete_id) ==
    LET first_val == instr.ops[1]
        scnd_val == instr.ops[2]
        first_ty == retain_not_quote(type_to_string(first_val.ty))
        scnd_ty == retain_not_quote(type_to_string(scnd_val.ty))
    IN  IF B.err # "ok" THEN B
        ELSE IF first_ty # scnd_ty THEN Panic(B, "assert_eq")
        ELSE binary_args(
                 add_const_if_const(
                     add_const_if_const(insert_type(B, first_ty), first_val, first_ty),
                     scnd_val, scnd_ty),
                 f, b, i, instr, concrete_id)

\* ------------------------------------------------------------------------
\* compile(): the bodies of its loops, as functions from builder to builder
\* ------------------------------------------------------------------------
PhiEntry(var, ty, src) == [var |-> var, ty |-> ty, src |-> src]

\* the closure of the pre-pass without `first_var_id += 1`
prepass_incoming_same_id(B, f, b, i, instr, inc) ==
    LET curr_set == IF inc[2] \in DOMAIN B.jump_to_phi THEN B.jump_to_phi[inc[2]]
                    ELSE {}
        var_id == VarId(B.first_var_id, SomeName(inc[1].name))
    IN  [B EXCEPT !.variables =
                      IF is_basic_value(instr)
                      THEN MapInsert(B.variables, InstrValue(f, b, i, instr), var_id)
                      ELSE B.variables,
                  !.jump_to_phi =
                      MapInsert(B.jump_to_phi, inc[2],
                                PhiSetInsert(curr_set,
                                             PhiEntry(var_id,
                                                      type_print_to_string(instr.ty),
                                                      inc[1])))]

\* one incoming (value, predecessor) pair of a phi: the closure of the pre-pass
prepass_incoming(B, f, b, i, instr, inc) ==
    LET curr_set == IF inc[2] \in DOMAIN B.jump_to_phi THEN B.jump_to_phi[inc[2]]
                    ELSE {}
        var_id == VarId(B.first_var_id, SomeName(inc[1].name))
    IN  [B EXCEPT !.variables =
                      IF is_basic_value(instr)
                      THEN MapInsert(B.variables, InstrValue(f, b, i, instr), var_id)
                      ELSE B.variables,
                  !.jump_to_phi =
                      MapInsert(B.jump_to_phi, inc[2],
                                PhiSetInsert(curr_set,
                                             PhiEntry(var_id,
                                                      type_print_to_string(instr.ty),
                                                      inc[1]))),
                  !.first_var_id = B.first_var_id + 1]

RECURSIVE prepass_phi(_, _, _, _, _, _)
prepass_phi(B, f, b, i, instr, incs) ==
    IF incs = <<>> THEN B
    ELSE prepass_phi(prepass_incoming(B, f, b, i, instr, Head(incs)),
                     f, b, i, instr, Tail(incs))

icmp_cond(pred) == IF pred = "eq" THEN "eq" ELSE "baboum"

\* main.rs:188-199
icmp_declare(B1, ty, name) ==
    IF B1.err # "ok" THEN B1
    ELSE IF <<ty, "ICmp">> \in B1.funcs THEN B1
    ELSE [B1 EXCEPT !.funcs = B1.funcs \cup {<<ty, "ICmp">>},
                    !.libfunc_declarations =
                        Append(B1.libfunc_declarations,
                               LibfuncDeclaration(name, name, <<>>))]

icmp_name(instr) ==
    type_print_to_string(instr.ops[1].ty) \o <<"_", icmp_cond(instr.pred)>>

lower_icmp(B, f, b, i, instr) ==
    icmp_declare(build_binary_int_func(B, f, b, i, instr, icmp_name(instr)),
                 type_print_to_string(instr.ops[1].ty), icmp_name(instr))

add_name(instr) == type_print_to_string(instr.ty) \o <<"_add">>

lower_add(B, f, b, i, instr) ==
    build_binary_int_func(B, f, b, i, instr, add_name(instr))

\* the closure of phis.iter().for_each(..) on one entry
push_phi_copy(B, e) ==
    IF B.err # "ok" THEN B
    ELSE IF e.src \notin DOMAIN B.variables THEN Panic(B, "expect")
    ELSE push_store_temp_statement(B, <<"store_temp">>, e.ty,
                                   <<B.variables[e.src]>>, <<e.var>>)

\* the copies of a Br that stops after the first entry
push_phi_copies_first_only(B, order) ==
    IF order = <<>> THEN B ELSE push_phi_copy(B, Head(order))

\* phis.iter().for_each(..): a copy for each entry, in the order of iteration
RECURSIVE push_phi_copies(_, _)
push_phi_copies(B, order) ==
    IF order = <<>> THEN B
    ELSE push_phi_copies(push_phi_copy(B, Head(order)), Tail(order))

JumpDeclaration == LibfuncDeclaration(<<"jump">>, <<"jump">>, <<>>)

\* main.rs:243-254: the jump with placeholder targets, recorded under its text
br_push(B2, f, instr, statement) ==
    [B2 EXCEPT !.statements = Append(B2.statements, statement),
               !.jumps = MapInsert(B2.jumps, statement_to_string(statement),
                                   <<br_operand_block(f, instr, 1),
                                     br_operand_block(f, instr, 2)>>)]

\* main.rs:233-254
br_emit(B1, f, instr) ==
    IF B1.err # "ok" THEN B1
    ELSE br_push(declare_libfunc(B1, libfunc_declaration_to_string(JumpDeclaration),
                                 JumpDeclaration),
                 f, instr, build_jump_basic_statement(<<"jump">>, U32Max, U32Max))

lower_br(B, f, b, instr, order) == br_emit(push_phi_copies(B, order), f, instr)

\* a Return that leaves out the operands without a binding
lower_return_skip_unbound(B, instr) ==
    LET Bound(v) == v \in DOMAIN B.variables
        ops == SelectSeq(instr.ops, Bound)
    IN  [B EXCEPT !.statements =
            Append(B.statements,
                   ReturnStatement([k \in 1..Len(ops) |-> B.variables[ops[k]]]))]

lower_return(B, instr) ==
    IF \E k \in 1..Len(instr.ops) : instr.ops[k] \notin DOMAIN B.variables
    THEN Panic(B, "unwrap")
    ELSE [B EXCEPT !.statements =
              Append(B.statements,
                     ReturnStatement([k \in 1..Len(instr.ops) |->
                                         B.variables[instr.ops[k]]]))]

\* the closure of the resolution pass on a statement whose text is `text`
\* (`dest.0 as u32` keeps every index below 2^32 as it is)
resolve_statement(B, statement, text) ==
    IF contains_jump(text)
    THEN build_jump_basic_statement(<<"jump">>,
                                    B.block_remapping[B.jumps[text][1]],
                                    B.block_remapping[B.jumps[text][2]])
    ELSE statement

\* whether that closure unwraps a None on the statement
resolve_panics(B, text) ==
    /\ contains_jump(text)
    /\ \/ text \notin DOMAIN B.jumps
       \/ \E k \in 1..2 : B.jumps[text][k] \notin DOMAIN B.block_remapping

resolve(B) ==
    IF \E k \in 1..Len(B.statements) :
           resolve_panics(B, statement_to_string(B.statements[k]))
    THEN Panic(B, "unwrap")
    ELSE [B EXCEPT !.statements =
              [k \in 1..Len(B.statements) |->
                  resolve_statement(B, B.statements[k],
                                    statement_to_string(B.statements[k]))]]

\* ------------------------------------------------------------------------
\* State
\* ------------------------------------------------------------------------
VARIABLES
    program,               \* the module read from the IR file
    pc, fi, bi, ii,        \* where compile() is: pass, function, block, instruction
    libfuncs, funcs, types,
    type_declarations, libfunc_declarations, statements,
    variables, block_remapping, jumps, jump_to_phi, next_var,
    first_var_id,          \* the local of the pre-pass
    err,                   \* the panic that ended the run, "ok" if none
    output,                \* what was printed: <<>> or <<the program>>
    origin                 \* per statement, the instruction <<f, b, i>> it was emitted for

vars == <<program, pc, fi, bi, ii, libfuncs, funcs, types, type_declarations,
          libfunc_declarations, statements, variables, block_remapping, jumps,
          jump_to_phi, next_var, first_var_id, err, output, origin>>

Builder ==
    [libfuncs |-> libfuncs, funcs |-> funcs, types |-> types,
     type_declarations |-> type_declarations,
     libfunc_declarations |-> libfunc_declarations, statements |-> statements,
     variables |-> variables, block_remapping |-> block_remapping, jumps |-> jumps,
     jump_to_phi |-> jump_to_phi, next_var |-> next_var,
     first_var_id |-> first_var_id, err |-> "ok"]

\* the builder after a step, and the instruction its new statements belong to
Commit(B) ==
    /\ libfuncs' = B.libfuncs
    /\ funcs' = B.funcs
    /\ types' = B.types
    /\ type_declarations' = B.type_declarations
    /\ libfunc_declarations' = B.libfunc_declarations
    /\ statements' = B.statements
    /\ variables' = B.variables
    /\ block_remapping' = B.block_remapping
    /\ jumps' = B.jumps
    /\ jump_to_phi' = B.jump_to_phi
    /\ next_var' = B.next_var
    /\ first_var_id' = B.first_var_id
    /\ err' = B.err
    /\ origin' = origin \o [k \in 1..(Len(B.statements) - Len(statements)) |->
                               <<fi, bi, ii>>]

NumFuncs == Len(program)

NumBlocks(f) == Len(program[f].blocks)

NumInstrs(f, b) == Len(program[f].blocks[b])

count_params(f) == Len(program[f].params)

CurInstr == program[fi].blocks[bi][ii]

AtInstr(phase) ==
    /\ pc = phase
    /\ bi \in 1..NumBlocks(fi)
    /\ ii \in 1..NumInstrs(fi, bi)

Goto(p, f, b, i) == pc' = p /\ fi' = f /\ bi' = b /\ ii' = i

\* the next iteration of the lowering loops after block b of function f
AfterBlock(f, b) ==
    IF b < NumBlocks(f) THEN Goto("lower", f, b + 1, 0)
    ELSE IF f < NumFuncs THEN Goto("lower", f + 1, 0, 0)
    ELSE Goto("resolve", 0, 0, 0)

AfterInstr ==
    IF ii < NumInstrs(fi, bi) THEN Goto("lower", fi, bi, ii + 1)
    ELSE AfterBlock(fi, bi)

\* a lowering step ends the run when it panicked
LowerStep(B) ==
    /\ Commit(B)
    /\ IF B.err # "ok" THEN Goto("panicked", fi, bi, ii) ELSE AfterInstr
    /\ UNCHANGED <<program, output>>

\* main.rs:212-218: the entries recorded for a block, none if it has no key
PhisOf(block) == IF block \in DOMAIN jump_to_phi THEN jump_to_phi[block] ELSE {}

\* the orders in which a HashSet may be iterated
Orderings(S) ==
    {s \in [1..Cardinality(S) -> S] : \A x \in S : \E k \in 1..Cardinality(S) : s[k] = x}

Init ==
    /\ program \in Programs
    /\ pc = "prepass" /\ fi = 1 /\ bi = 1 /\ ii = 1
    /\ libfuncs = {} /\ funcs = {} /\ types = {}
    /\ type_declarations = <<>> /\ libfunc_declarations = <<>> /\ statements = <<>>
    /\ variables = EmptyMap /\ block_remapping = EmptyMap
    /\ jumps = EmptyMap /\ jump_to_phi = EmptyMap
    /\ next_var = 0
    /\ first_var_id = Len(program[1].params)
    /\ err = "ok"
    /\ output = <<>>
    /\ origin = <<>>

\* ------------------------------------------------------------------------
\* The pre-pass (main.rs:109-154)
\* ------------------------------------------------------------------------
PrePassAdvance ==
    IF ii < NumInstrs(fi, bi) THEN Goto("prepass", fi, bi, ii + 1)
    ELSE Goto("prepass", fi, bi + 1, 1)

PrePassPhi ==
    /\ AtInstr("prepass")
    /\ CurInstr.op = "Phi"
    /\ Commit(prepass_phi(Builder, fi, bi, ii, CurInstr, CurInstr.inc))
    /\ PrePassAdvance
    /\ UNCHANGED <<program, output>>

PrePassOther ==
    /\ AtInstr("prepass")
    /\ CurInstr.op # "Phi"
    /\ PrePassAdvance
    /\ UNCHANGED <<program, libfuncs, funcs, types, type_declarations,
                   libfunc_declarations, statements, variables, block_remapping,
                   jumps, jump_to_phi, next_var, first_var_id, err, output, origin>>

\* builder.next_var = first_var_id, then the next function if there is one
PrePassEndFunction ==
    /\ pc = "prepass"
    /\ bi > NumBlocks(fi)
    /\ next_var' = first_var_id
    /\ IF fi < NumFuncs
       THEN Goto("prepass", fi + 1, 1, 1) /\ first_var_id' = count_params(fi + 1)
       ELSE Goto("lower", 1, 0, 0) /\ first_var_id' = first_var_id
    /\ UNCHANGED <<program, libfuncs, funcs, types, type_declarations,
                   libfunc_declarations, statements, variables, block_remapping,
                   jumps, jump_to_phi, err, output, origin>>

\* ------------------------------------------------------------------------
\* Lowering (main.rs:157-275)
\* ------------------------------------------------------------------------
InsertParams ==
    /\ pc = "lower"
    /\ bi = 0
    /\ Commit(insert_params(Builder, program[fi].params))
    /\ AfterBlock(fi, 0)
    /\ UNCHANGED <<program, output>>

EnterBlock ==
    /\ pc = "lower"
    /\ bi \in 1..NumBlocks(fi)
    /\ ii = 0
    /\ block_remapping' = MapInsert(block_remapping, <<fi, bi>>, Len(statements))
    /\ Goto("lower", fi, bi, 1)
    /\ UNCHANGED <<program, libfuncs, funcs, types, type_declarations,
                   libfunc_declarations, statements, variables, jumps, jump_to_phi,
                   next_var, first_var_id, err, output, origin>>

LowerICmp ==
    /\ AtInstr("lower")
    /\ CurInstr.op = "ICmp"
    /\ LowerStep(lower_icmp(Builder, fi, bi, ii, CurInstr))

LowerAdd ==
    /\ AtInstr("lower")
    /\ CurInstr.op = "Add"
    /\ LowerStep(lower_add(Builder, fi, bi, ii, CurInstr))

LowerBr ==
    /\ AtInstr("lower")
    /\ CurInstr.op = "Br"
    /\ \E order \in Orderings(PhisOf(<<fi, bi>>)) :
           LowerStep(lower_br(Builder, fi, bi, CurInstr, order))

LowerReturn ==
    /\ AtInstr("lower")
    /\ CurInstr.op = "Return"
    /\ LowerStep(lower_return(Builder, CurInstr))

\* a skip that takes a variable id
LowerSkipTakingId ==
    /\ AtInstr("lower")
    /\ CurInstr.op \notin {"ICmp", "Add", "Br", "Return"}
    /\ AfterInstr
    /\ next_var' = next_var + 1
    /\ UNCHANGED <<program, libfuncs, funcs, types, type_declarations,
                   libfunc_declarations, statements, variables, block_remapping,
                   jumps, jump_to_phi, first_var_id, err, output, origin>>

\* the `_ => ()` arm: Phi and every opcode without an arm
LowerSkip ==
    /\ AtInstr("lower")
    /\ CurInstr.op \notin {"ICmp", "Add", "Br", "Return"}
    /\ AfterInstr
    /\ UNCHANGED <<program, libfuncs, funcs, types, type_declarations,
                   libfunc_declarations, statements, variables, block_remapping,
                   jumps, jump_to_phi, next_var, first_var_id, err, output, origin>>

\* ------------------------------------------------------------------------
\* Resolution of the jumps and output (main.rs:276-293)
\* ------------------------------------------------------------------------
ResolveStep(B) ==
    /\ Commit(B)
    /\ IF B.err # "ok" THEN Goto("panicked", 0, 0, 0) ELSE Goto("print", 0, 0, 0)
    /\ UNCHANGED <<program, output>>

Resolve ==
    /\ pc = "resolve"
    /\ ResolveStep(resolve(Builder))

Program ==
    [type_declarations |-> type_declarations,
     libfunc_declarations |-> libfunc_declarations,
     statements |-> statements, funcs |-> <<>>]

PrintProgram ==
    /\ pc = "print"
    /\ output' = <<Program>>
    /\ Goto("done", 0, 0, 0)
    /\ UNCHANGED <<program, libfuncs, funcs, types, type_declarations,
                   libfunc_declarations, statements, variables, block_remapping,
                   jumps, jump_to_phi, next_var, first_var_id, err, origin>>

Next ==
    \/ PrePassPhi
    \/ PrePassOther
    \/ PrePassEndFunction
    \/ InsertParams
    \/ EnterBlock
    \/ LowerICmp
    \/ LowerAdd
    \/ LowerBr
    \/ LowerReturn
    \/ LowerSkip
    \/ Resolve
    \/ PrintProgram

Spec == Init /\ [][Next]_vars

\* ------------------------------------------------------------------------
\* Vocabulary of the properties
\* ------------------------------------------------------------------------
\* the instruction statement k was emitted for
StatementInstr(k) == program[origin[k][1]].blocks[origin[k][2]][origin[k][3]]

IsJumpStatement(st) == st.kind = "Invocation" /\ Len(st.branches) = 2

IsCopy(st) == st.kind = "Invocation" /\ st.libfunc_id = <<"store_temp">>

IsConstProducer(st) ==
    /\ st.kind = "Invocation"
    /\ st.args = <<>>
    /\ Len(st.branches) = 1
    /\ Head(st.libfunc_id) = "const_as_immediate<"

IsBinary(st) == st.kind = "Invocation" /\ Len(st.args) = 2

\* the resolution pass is over and did not panic
Resolved == pc \in {"print", "done"}

PrePassOver == pc # "prepass"

\* the positions <<f, b, i>> of the Phi instructions of the program
PhiPositions ==
    {pos \in UNION {UNION {{<<f, b, i>> : i \in 1..NumInstrs(f, b)} :
                              b \in 1..NumBlocks(f)} : f \in 1..NumFuncs} :
        program[pos[1]].blocks[pos[2]][pos[3]].op = "Phi"}

PhiAt(pos) == program[pos[1]].blocks[pos[2]][pos[3]]

PhiValue(pos) == InstrValue(pos[1], pos[2], pos[3], PhiAt(pos))

DeclIds(decls) == [k \in 1..Len(decls) |-> decls[k].id]

CanonicalIds(decls) == [k \in 1..Len(decls) |-> retain_not_quote(decls[k].id)]

Range(seq) == {seq[k] : k \in 1..Len(seq)}

Injective(seq) == \A j, k \in 1..Len(seq) : j # k => seq[j] # seq[k]

\* ------------------------------------------------------------------------
\* C1: after the resolution pass, the jump emitted for a Br has as its two
\* targets the block_remapping entries of the two successors of that Br.
\* ------------------------------------------------------------------------
C1_JumpTargetsOwnSuccessors ==
    Resolved =>
        \A k \in 1..Len(statements) :
            (StatementInstr(k).op = "Br" /\ IsJumpStatement(statements[k])) =>
                {statements[k].branches[1].target.idx,
                 statements[k].branches[2].target.idx}
                = {block_remapping[<<origin[k][1], StatementInstr(k).iftrue>>],
                   block_remapping[<<origin[k][1], StatementInstr(k).iffalse>>]}

\* ------------------------------------------------------------------------
\* C2: in the program of a run that completes, both targets of every jump
\* are statement indices in [0, statements.len()), none the placeholder.
\* ------------------------------------------------------------------------
C2_JumpTargetsInRange ==
    Resolved =>
        \A k \in 1..Len(statements) :
            IsJumpStatement(statements[k]) =>
                \A j \in 1..2 :
                    /\ statements[k].branches[j].target.idx \in 0..(Len(statements) - 1)
                    /\ statements[k].branches[j].target.idx # U32Max

\* ------------------------------------------------------------------------
\* C3: variable ids never repeat within a run: the ids of the phi entries of
\* the pre-pass, of the parameters, and of the results of Compare, Add and
\* constant statements are pairwise distinct, and the ids taken from
\* next_var grow along the statements.
\* ------------------------------------------------------------------------
\* positions of the statements whose result variable came from next_var()
AllocPositions ==
    {k \in 1..Len(statements) :
        IsConstProducer(statements[k]) \/ IsBinary(statements[k])}

ResultId(k) == statements[k].branches[1].results[1].id

BoundParams == {v \in DOMAIN variables : v.kind = "param"}

\* the entries of the pre-pass, each with the block it is keyed by
OwnPhiEntries ==
    UNION {{<<blk, e>> : e \in jump_to_phi[blk]} : blk \in DOMAIN jump_to_phi}

C3_IdsNeverRepeat ==
    /\ \A j, k \in AllocPositions : j < k => ResultId(j) < ResultId(k)
    /\ \A p, q \in BoundParams : p # q => variables[p].id # variables[q].id
    /\ \A p \in BoundParams : \A k \in AllocPositions : variables[p].id # ResultId(k)
    /\ \A x, y \in OwnPhiEntries : x # y => x[2].var.id # y[2].var.id
    /\ \A x \in OwnPhiEntries :
           /\ \A k \in AllocPositions : x[2].var.id # ResultId(k)
           /\ \A p \in BoundParams : x[2].var.id # variables[p].id

\* ------------------------------------------------------------------------
\* C4: a phi has one destination variable: for each of its incoming (value,
\* predecessor) pairs the set of the predecessor has an entry for that value
\* whose variable is the one bound to the result of the phi.
\* ------------------------------------------------------------------------
C4_OneVariablePerPhi ==
    PrePassOver =>
        \A pos \in PhiPositions :
            \A n \in 1..Len(PhiAt(pos).inc) :
                \E e \in PhisOf(PhiAt(pos).inc[n][2]) :
                    /\ e.src = PhiAt(pos).inc[n][1]
                    /\ PhiValue(pos) \in DOMAIN variables
                    /\ e.var.id = variables[PhiValue(pos)].id

\* ------------------------------------------------------------------------
\* C5: lowering the Br of a block appends one store_temp for each entry of
\* jump_to_phi keyed by the block, reading the variable bound to the source
\* of the entry and writing the variable of the entry, then the jump; the
\* copies are not below the start index of the block.
\* ------------------------------------------------------------------------
CopyOf(st, e, bindings) ==
    /\ IsCopy(st)
    /\ st.args = <<bindings[e.src]>>
    /\ Len(st.branches) = 1
    /\ st.branches[1].target = Fallthrough
    /\ st.branches[1].results = <<e.var>>

C5_Step ==
    (AtInstr("lower") /\ CurInstr.op = "Br" /\ pc' # "panicked") =>
        /\ Len(statements') = Len(statements) + Cardinality(PhisOf(<<fi, bi>>)) + 1
        /\ SubSeq(statements', 1, Len(statements)) = statements
        /\ IsJumpStatement(statements'[Len(statements')])
        /\ \A e \in PhisOf(<<fi, bi>>) :
               Cardinality({k \in (Len(statements) + 1)..(Len(statements') - 1) :
                               CopyOf(statements'[k], e, variables)}) = 1
        /\ block_remapping[<<fi, bi>>] <= Len(statements)

C5_CopiesBeforeJump == [][C5_Step]_vars

\* a Br was lowered after two copies
C5_Witness ==
    \E k \in 3..Len(statements) :
        /\ IsJumpStatement(statements[k])
        /\ IsCopy(statements[k - 1])
        /\ IsCopy(statements[k - 2])
        /\ origin[k - 2] = origin[k]

\* ------------------------------------------------------------------------
\* C6: when a phi lists a (value, predecessor) pair more than once, the set
\* of the predecessor has no more triples for that value and type than
\* there are phis listing the pair.
\* ------------------------------------------------------------------------
ListsPair(pos, pair) == \E n \in 1..Len(PhiAt(pos).inc) : PhiAt(pos).inc[n] = pair

ListsTwice(pos, pair) ==
    \E m, n \in 1..Len(PhiAt(pos).inc) :
        m # n /\ PhiAt(pos).inc[m] = pair /\ PhiAt(pos).inc[n] = pair

C6_DuplicatePairsOneEntry ==
    PrePassOver =>
        \A pos \in PhiPositions :
            \A pair \in Range(PhiAt(pos).inc) :
                ListsTwice(pos, pair) =>
                    Cardinality({e \in PhisOf(pair[2]) :
                                    /\ e.src = pair[1]
                                    /\ e.ty = type_print_to_string(PhiAt(pos).ty)})
                    <= Cardinality({q \in PhiPositions :
                                       /\ ListsPair(q, pair)
                                       /\ PhiAt(q).ty = PhiAt(pos).ty})

\* ------------------------------------------------------------------------
\* C7: once an ICmp is lowered, libfunc_declarations has an entry named from
\* its operand type and predicate, the name of the invocation emitted for it.
\* ------------------------------------------------------------------------
C7_CompareSignatureDeclared ==
    \A k \in 1..Len(statements) :
        (StatementInstr(k).op = "ICmp" /\ IsBinary(statements[k])) =>
            /\ statements[k].libfunc_id = icmp_name(StatementInstr(k))
            /\ icmp_name(StatementInstr(k)) \in Range(DeclIds(libfunc_declarations))

\* ------------------------------------------------------------------------
\* C8: once an Add is lowered, libfunc_declarations has exactly one entry
\* named "<type>_add", the name of the invocation emitted for it.
\* ------------------------------------------------------------------------
C8_AddSignatureDeclared ==
    \A k \in 1..Len(statements) :
        (StatementInstr(k).op = "Add" /\ IsBinary(statements[k])) =>
            /\ statements[k].libfunc_id = add_name(StatementInstr(k))
            /\ Cardinality({j \in 1..Len(libfunc_declarations) :
                               libfunc_declarations[j].id = add_name(StatementInstr(k))})
               = 1

\* ------------------------------------------------------------------------
\* C9: the type declarations have one entry per quote-stripped name at most,
\* the signature declarations one per name; both only grow at the end, by
\* names they did not have; the parameters of a function add their types in
\* the order of first appearance, and constant signatures stand in the order
\* of their first statements.
\* ------------------------------------------------------------------------
IsPrefix(s, t) == Len(s) <= Len(t) /\ SubSeq(t, 1, Len(s)) = s

RECURSIVE DeclareAll(_, _)
DeclareAll(names, more) ==
    IF more = <<>> THEN names
    ELSE DeclareAll(IF Head(more) \in Range(names) THEN names
                    ELSE Append(names, Head(more)),
                    Tail(more))

FirstUse(stmts, id) ==
    CHOOSE k \in 1..Len(stmts) :
        /\ stmts[k].libfunc_id = id
        /\ \A j \in 1..(k - 1) : stmts[j].libfunc_id # id

ConstDeclsInFirstUseOrder(stmts, decls) ==
    \A j, k \in 1..Len(decls) :
        (j < k /\ decls[j].generic_id = <<"const">> /\ decls[k].generic_id = <<"const">>)
            => FirstUse(stmts, decls[j].id) < FirstUse(stmts, decls[k].id)

ParamTypeNames(f) ==
    [k \in 1..Len(program[f].params) |->
        retain_not_quote(type_to_string(program[f].params[k].ty))]

C9_Step ==
    /\ Injective(CanonicalIds(type_declarations'))
    /\ Injective(DeclIds(libfunc_declarations'))
    /\ IsPrefix(type_declarations, type_declarations')
    /\ IsPrefix(libfunc_declarations, libfunc_declarations')
    /\ ConstDeclsInFirstUseOrder(statements', libfunc_declarations')
    /\ (pc = "lower" /\ bi = 0) =>
           CanonicalIds(type_declarations')
           = DeclareAll(CanonicalIds(type_declarations), ParamTypeNames(fi))

C9_DeclarationsUniqueInOrder == [][C9_Step]_vars

\* declarations were repeated: a type by two parameters, a constant signature
\* by two statements, and there are two types
C9_Witness ==
    /\ \E p, q \in BoundParams : p # q /\ p.ty = q.ty
    /\ \E j, k \in 1..Len(statements) :
           /\ j < k
           /\ IsConstProducer(statements[j])
           /\ IsConstProducer(statements[k])
           /\ statements[j].libfunc_id = statements[k].libfunc_id
    /\ Len(type_declarations) >= 2
    /\ Len(libfunc_declarations) >= 2

\* ------------------------------------------------------------------------
\* C10: the signature of a constant (T, v) is declared once however often
\* the constant is an operand; each occurrence has its own statement without
\* inputs, whose result variable no earlier statement produces and which the
\* invocation emitted for the instruction reads.
\* ------------------------------------------------------------------------
ProducedIds(st) ==
    UNION {{st.branches[b].results[r].id : r \in 1..Len(st.branches[b].results)} :
              b \in 1..Len(st.branches)}

ConstOperandNames(instr) ==
    {const_fn_name(retain_not_quote(type_to_string(instr.ops[n].ty)),
                   IntToText(instr.ops[n].val)) :
        n \in {m \in 1..Len(instr.ops) : is_constant_int(instr.ops[m])}}

C10_DeclaredOnce(k) ==
    /\ statements[k].libfunc_id \in ConstOperandNames(StatementInstr(k))
    /\ Cardinality({j \in 1..Len(libfunc_declarations) :
                       libfunc_declarations[j].id = statements[k].libfunc_id}) = 1

C10_Fresh(k) ==
    \A j \in 1..(k - 1) : ResultId(k) \notin ProducedIds(statements[j])

C10_ReadByConsumer(k) ==
    \A j \in (k + 1)..Len(statements) :
        (IsBinary(statements[j]) /\ origin[j] = origin[k]) =>
            statements[k].branches[1].results[1] \in Range(statements[j].args)

C10_ConstantPerOccurrence ==
    \A k \in 1..Len(statements) :
        IsConstProducer(statements[k]) =>
            /\ C10_DeclaredOnce(k)
            /\ C10_Fresh(k)
            /\ C10_ReadByConsumer(k)

\* ------------------------------------------------------------------------
\* C11: the function entry: { c = compare a, b ; branch c, then, else },
\* then: { return 1 }, else: { return 0 }, alone in its module, is lowered
\* to the end and printed: one compare reading the variables of a and b,
\* one branch whose first target is the start of then and whose second is
\* the start of else, two returns and a constant producer for each of the
\* literals 1 and 0.
\* ------------------------------------------------------------------------
RunOver == pc \in {"done", "panicked"}

Count(seq, Test(_)) == Cardinality({k \in 1..Len(seq) : Test(seq[k])})

IsReturn(st) == st.kind = "Return"

IsCompare(st) == IsBinary(st) /\ st.libfunc_id = <<"i32", "_", "eq">>

ProducesLiteral(st, v) ==
    IsConstProducer(st) /\ st.libfunc_id = const_fn_name(<<"i32">>, IntToText(v))

C11_RoundTrip ==
    (program = <<FnRetConst(1)>> /\ RunOver) =>
        /\ pc = "done"
        /\ output = <<Program>>
        /\ Count(statements, IsCompare) = 1
        /\ Count(statements, IsJumpStatement) = 1
        /\ Count(statements, IsReturn) = 2
        /\ \A v \in {0, 1} :
               Cardinality({k \in 1..Len(statements) :
                               ProducesLiteral(statements[k], v)}) = 1
        /\ \A k \in 1..Len(statements) :
               /\ IsCompare(statements[k]) =>
                      statements[k].args =
                          <<variables[program[1].params[1]],
                            variables[program[1].params[2]]>>
               /\ IsJumpStatement(statements[k]) =>
                      /\ statements[k].branches[1].target.idx = block_remapping[<<1, 2>>]
                      /\ statements[k].branches[2].target.idx = block_remapping[<<1, 3>>]

\* ------------------------------------------------------------------------
\* C12: a Compare, Add, Return or phi copy that reads a value without a
\* binding ends the run at that instruction; a run that ended so stays
\* ended and nothing is ever printed by it.
\* ------------------------------------------------------------------------
\* the instruction under the cursor reads a value that has no binding: an
\* operand of a Compare or Add that is not a literal, an operand of a Return,
\* the source of a phi entry of the block of a Br
ReadsUnbound ==
    \/ /\ CurInstr.op \in {"ICmp", "Add"}
       /\ \E k \in 1..2 :
              /\ ~is_constant_int(CurInstr.ops[k])
              /\ CurInstr.ops[k] \notin DOMAIN variables
    \/ /\ CurInstr.op = "Return"
       /\ \E k \in 1..Len(CurInstr.ops) : CurInstr.ops[k] \notin DOMAIN variables
    \/ /\ CurInstr.op = "Br"
       /\ \E e \in PhisOf(<<fi, bi>>) : e.src \notin DOMAIN variables

C12_Step ==
    /\ (AtInstr("lower") /\ ReadsUnbound) =>
           /\ pc' = "panicked"
           /\ <<fi', bi', ii'>> = <<fi, bi, ii>>
           /\ err' # "ok"
    /\ pc = "panicked" => pc' = "panicked"
    /\ pc' = "panicked" => output' = <<>>

C12_UnboundValueFails == [][C12_Step]_vars

\* a run ended at a Return that read a literal no statement had produced
C12_Witness ==
    /\ pc = "panicked"
    /\ fi \in 1..NumFuncs
    /\ AtInstr("panicked")
    /\ CurInstr.op = "Return"
    /\ \E k \in 1..Len(CurInstr.ops) : CurInstr.ops[k] \notin DOMAIN variables
    /\ statements # <<>>
    /\ output = <<>>

\* ------------------------------------------------------------------------
\* C13: the binding table is write-once: a step changes the binding of a
\* value only if the value is a literal, and then to a variable allocated
\* in that step; in the pre-pass no incoming pair of a phi finds the result
\* of the phi bound already.  (From the end of the pre-pass on every binding
\* takes its id from next_var, which only grows, so a value bound again has
\* a changed binding.)
\* ------------------------------------------------------------------------
C13_Step ==
    /\ \A v \in DOMAIN variables :
           variables'[v] # variables[v] =>
               /\ is_constant_int(v)
               /\ variables'[v].id \in next_var..(next_var' - 1)
    /\ (AtInstr("prepass") /\ CurInstr.op = "Phi") =>
           \A n \in 1..Len(CurInstr.inc) :
               InstrValue(fi, bi, ii, CurInstr) \notin
                   DOMAIN prepass_phi(Builder, fi, bi, ii, CurInstr,
                                      SubSeq(CurInstr.inc, 1, n - 1)).variables

C13_BindingsWriteOnce == [][C13_Step]_vars

\* ------------------------------------------------------------------------
\* C14: in the program of a run that completes, every type name that is a
\* generic argument of a signature declaration, the type of an operand of a
\* Compare or Add, or the type of a phi, has exactly one type declaration.
\* ------------------------------------------------------------------------
InstrPositions ==
    UNION {UNION {{<<f, b, i>> : i \in 1..NumInstrs(f, b)} :
                     b \in 1..NumBlocks(f)} : f \in 1..NumFuncs}

DeclaredTypeArgs ==
    UNION {{libfunc_declarations[j].generic_args[n].ty :
               n \in {m \in 1..Len(libfunc_declarations[j].generic_args) :
                          libfunc_declarations[j].generic_args[m].kind = "Type"}} :
              j \in 1..Len(libfunc_declarations)}

OperandTypeNames ==
    UNION {{type_print_to_string(PhiAt(pos).ops[n].ty) : n \in 1..Len(PhiAt(pos).ops)} :
              pos \in {q \in InstrPositions : PhiAt(q).op \in {"ICmp", "Add"}}}

PhiTypeNames == {type_print_to_string(PhiAt(pos).ty) : pos \in PhiPositions}

C14_TypeNamesDeclaredOnce ==
    Resolved =>
        \A t \in DeclaredTypeArgs \cup OperandTypeNames \cup PhiTypeNames :
            Cardinality({k \in 1..Len(type_declarations) :
                            type_declarations[k].id = t}) = 1

\* ------------------------------------------------------------------------
\* C15: the signature a phi copy references is declared with the type of
\* the phi entry the copy was emitted for.
\* ------------------------------------------------------------------------
C15_CopyTypeTag ==
    \A k \in 1..Len(statements) :
        IsCopy(statements[k]) =>
            \A e \in PhisOf(<<origin[k][1], origin[k][2]>>) :
                e.var.id = ResultId(k) =>
                    \E j \in 1..Len(libfunc_declarations) :
                        /\ libfunc_declarations[j].id = statements[k].libfunc_id
                        /\ libfunc_declarations[j].generic_args = <<TypeArg(e.ty)>>

\* ------------------------------------------------------------------------
\* C16: a program with a block that emits no statement (only Phi and
\* instructions without an arm) is rejected: its run does not reach the
\* output and prints nothing.
\* ------------------------------------------------------------------------
EmitsNothing(f, b) ==
    \A i \in 1..NumInstrs(f, b) :
        program[f].blocks[b][i].op \notin {"ICmp", "Add", "Br", "Return"}

HasEmptyBlock == \E f \in 1..NumFuncs : \E b \in 1..NumBlocks(f) : EmitsNothing(f, b)

C16_EmptyBlockRejected ==
    HasEmptyBlock => (pc \notin {"print", "done"} /\ output = <<>>)

\* ------------------------------------------------------------------------
\* C17: a lowering step that does not fail appends a fixed number of
\* statements.  Compare, Add: one producer per literal operand, then one
\* invocation with a single fallthrough outcome whose one result is a
\* variable of an id not in use before, bound to the value of the
\* instruction.  Return: one Return statement of the variables bound to the
\* operands, in order.  Br: copies, then one invocation of two outcomes.
\* Phi: nothing.
\* ------------------------------------------------------------------------
NewStatements == SubSeq(statements', Len(statements) + 1, Len(statements'))

\* the ids in use: bound to a value, produced by a statement, or given to a
\* phi entry by the pre-pass
UsedIds ==
    {variables[v].id : v \in DOMAIN variables}
    \cup UNION {ProducedIds(statements[k]) : k \in 1..Len(statements)}
    \cup {x[2].var.id : x \in OwnPhiEntries}

C17_Binary(new) ==
    /\ Len(new) = 1 + Cardinality({k \in 1..2 : is_constant_int(CurInstr.ops[k])})
    /\ \A j \in 1..(Len(new) - 1) : IsConstProducer(new[j])
    /\ IsBinary(new[Len(new)])
    /\ Len(new[Len(new)].branches) = 1
    /\ new[Len(new)].branches[1].target = Fallthrough
    /\ Len(new[Len(new)].branches[1].results) = 1
    /\ new[Len(new)].branches[1].results[1].id \notin UsedIds
    /\ \A j \in 1..(Len(new) - 1) :
           new[Len(new)].branches[1].results[1].id \notin ProducedIds(new[j])
    /\ InstrValue(fi, bi, ii, CurInstr) \in DOMAIN variables'
    /\ variables'[InstrValue(fi, bi, ii, CurInstr)].id
           = new[Len(new)].branches[1].results[1].id

C17_Return(new) ==
    new = <<ReturnStatement([k \in 1..Len(CurInstr.ops) |-> variables[CurInstr.ops[k]]])>>

C17_Branch(new) ==
    /\ Len(new) = Cardinality(PhisOf(<<fi, bi>>)) + 1
    /\ IsJumpStatement(new[Len(new)])
    /\ \A j \in 1..(Len(new) - 1) : IsCopy(new[j])

C17_Step ==
    (AtInstr("lower") /\ pc' # "panicked") =>
        /\ SubSeq(statements', 1, Len(statements)) = statements
        /\ CurInstr.op \in {"ICmp", "Add"} => C17_Binary(NewStatements)
        /\ CurInstr.op = "Return" => C17_Return(NewStatements)
        /\ CurInstr.op = "Br" => C17_Branch(NewStatements)
        /\ CurInstr.op = "Phi" => NewStatements = <<>>

C17_FixedStatementCounts == [][C17_Step]_vars

\* ------------------------------------------------------------------------
\* C18: lowering a Phi or an instruction of an opcode without an arm raises
\* no error and leaves the statements, the type and signature declarations,
\* the binding table, the id counter, the block table and the jump table as
\* they are.
\* ------------------------------------------------------------------------
C18_Step ==
    (AtInstr("lower") /\ CurInstr.op \notin {"ICmp", "Add", "Br", "Return"}) =>
        /\ pc' # "panicked"
        /\ err' = "ok"
        /\ UNCHANGED <<statements, type_declarations, libfunc_declarations,
                       variables, next_var, block_remapping, jumps>>

C18_SilentSkip == [][C18_Step]_vars

\* an instruction without an arm was passed over after the parameters were
\* bound, and the next instruction of the block is to be lowered
C18_Witness ==
    /\ pc = "lower"
    /\ bi \in 1..NumBlocks(fi)
    /\ ii \in 2..NumInstrs(fi, bi)
    /\ program[fi].blocks[bi][ii - 1].op \notin {"ICmp", "Add", "Br", "Return", "Phi"}
    /\ variables # EmptyMap
    /\ err = "ok"

\* ------------------------------------------------------------------------
\* C19: from the state the lowering leaves, the resolution pass does not
\* fail, keeps the number of statements, and keeps every statement that is
\* not a jump as it is, whatever the debug names of its variables.
\* ------------------------------------------------------------------------
C19_ResolutionChangesJumpsOnly ==
    pc = "resolve" =>
        /\ resolve(Builder).err = "ok"
        /\ Len(resolve(Builder).statements) = Len(statements)
        /\ \A k \in 1..Len(statements) :
               ~IsJumpStatement(statements[k]) =>
                   resolve(Builder).statements[k] = statements[k]

\* ------------------------------------------------------------------------
\* C20: in a module of one function with P parameters and I incoming pairs
\* of phis, the pre-pass gives the pairs the ids P, P+1, .., P+I-1 in scan
\* order and leaves next_var at P+I; the ids of the parameters and of the
\* results and constants of the lowering are P+I at least.
\* ------------------------------------------------------------------------
\* the incoming pairs of the phis of function f: <<block, instruction, pair>>
PhiSlots(f) ==
    UNION {{<<pos[2], pos[3], n>> : n \in 1..Len(PhiAt(pos).inc)} :
              pos \in {q \in PhiPositions : q[1] = f}}

ScansBefore(s, t) ==
    \/ s[1] < t[1]
    \/ s[1] = t[1] /\ s[2] < t[2]
    \/ s[1] = t[1] /\ s[2] = t[2] /\ s[3] < t[3]

SlotRank(f, t) == Cardinality({s \in PhiSlots(f) : ScansBefore(s, t)})

SlotPair(f, t) == program[f].blocks[t[1]][t[2]].inc[t[3]]

C20_PrePassIdRange ==
    (NumFuncs = 1 /\ PrePassOver) =>
        /\ \A t \in PhiSlots(1) :
               \E e \in PhisOf(SlotPair(1, t)[2]) :
                   /\ e.src = SlotPair(1, t)[1]
                   /\ e.var.id = count_params(1) + SlotRank(1, t)
        /\ \A x \in OwnPhiEntries :
               x[2].var.id \in
                   count_params(1)..(count_params(1) + Cardinality(PhiSlots(1)) - 1)
        /\ (pc = "lower" /\ fi = 1 /\ bi = 0) =>
               next_var = count_params(1) + Cardinality(PhiSlots(1))
        /\ next_var >= count_params(1) + Cardinality(PhiSlots(1))
        /\ \A p \in BoundParams :
               variables[p].id >= count_params(1) + Cardinality(PhiSlots(1))
        /\ \A k \in AllocPositions :
               ResultId(k) >= count_params(1) + Cardinality(PhiSlots(1))

\* a function of two parameters and four incoming pairs was lowered to the end
C20_Witness ==
    /\ NumFuncs = 1
    /\ pc = "done"
    /\ count_params(1) >= 1
    /\ Cardinality(PhiSlots(1)) >= 2
    /\ AllocPositions # {}
    /\ BoundParams # {}

====
